---- MODULE Spec2Model ----
(***************************************************************************)
(* Session / event-streaming orchestration layer of the research server.   *)
(*                                                                         *)
(*   session-store   src/unnamed/part_005                                  *)
(*   gemini-cli      src/server/src/index.ts, lines 60-171                 *)
(*   research routes src/server/src/routes/research.ts                     *)
(*                                                                         *)
(* The server is a single-threaded event loop: every action below is one   *)
(* synchronous turn of a handler, from its entry or from the await it      *)
(* resumes at to its next await or its end.                                *)
(***************************************************************************)
EXTENDS Naturals, Sequences, FiniteSets, TLC

\* sessions  the registry: experiment id -> session object (Null: none)
\* heap      the session objects ever created, in creation order; a handler
\*           and a runner's listeners hold a session by its index here
\* procs     the agent subprocesses ever spawned, with their runner
\* conns     the streaming requests ever received, with their response
\* exec      the request of the command-execution streamer, its process,
\*           its timeout and its response
\* dec       the line decoder of one process wrapper: what the process
\*           wrote, what is still to be read, the buffer, what was emitted
VARIABLES sessions, heap, procs, conns, exec, dec

vars == <<sessions, heap, procs, conns, exec, dec>>

(* ------------------------------ bounds -------------------------------- *)

\* Spec: the streaming requests (Start, Follow-up, Attach) of one run
MaxReqs == 2
\* SpecStream: the connections of one run (the agent's request, the attached)
MaxSinks == 2
\* agent output lines and thinking summaries one log takes
MaxOutput == 2
\* clients that go away before their response was ended
MaxDrops == 1
\* SpecAgent: the stdout lines one agent writes
MaxLines == 1
\* SpecDecode: the characters a process writes to stdout
MaxContent == 4
\* SpecExec: the arguments of a command, the output lines of its process
MaxArgs == 2
MaxExecLines == 1

(* ------------------------------ values -------------------------------- *)

\* null: `runner: CliRunner | null`, and an id the registry has no entry for
Null == 0

ExpIds == {"e1"}

NoToken == "none"

\* the session_id an agent's init event carries
AgentToken == "agent"

\* tokens a Follow-up caller may supply (clientSessionId)
ClientTokens == {NoToken, "client"}

\* exit codes of a process that ran: 0, non-zero, null (ended by a signal)
ExitCodes == {"0", "1", "null"}

\* the exit code Node reports on the close that follows a failed spawn
SpawnFailCode == "-2"

\* what one stdout line can be: not JSON, or a JSON event of a type of
\* CliStreamEvent ('tool_use', 'tool_result', 'result' have no listener and
\* no special handling, exactly like 'message')
LineKinds == {"nonjson", "init", "message", "error"}

Terminal == {"completed", "failed", "aborted"}

(* ------------------------------ events -------------------------------- *)

\* A CliStreamEvent. src is the process it comes from (Null: synthesized by
\* a handler), n the number of the stdout line it was parsed from, arg what
\* else distinguishes it (content, exit code), status a done event's status.
Ev(type, src, n, arg, status) ==
    [type |-> type, src |-> src, n |-> n, arg |-> arg, status |-> status]

ContactingEvent == Ev("message", Null, 0, "contacting", "")
ThinkingEvent == Ev("message", Null, 0, "thinking", "")
SynthesizedEvent == Ev("message", Null, 0, "synthesized", "")
WorkflowFailedEvent == Ev("error", Null, 0, "workflow-failed", "")
AbortedEvent == Ev("error", Null, 0, "aborted-by-user", "")
SpawnErrorEvent(p) == Ev("error", p, 0, "spawn-error", "")
\* runner.on('log'): { type: 'message', role: 'assistant', content: line }
LogEvent(p, n, kind) == Ev("message", p, n, "raw:" \o kind, "")
\* JSON.parse(line) of a line of the given type
JsonEvent(p, n, kind) == Ev(kind, p, n, "json", "")
DoneEvent(p, code, status) == Ev("done", p, 0, code, status)
\* Attach on a finished session: { type: 'done', status }
ReplayDoneEvent(status) == Ev("done", Null, 0, "replay", status)

(* --------------------------- the machine ------------------------------ *)

\* The mutable state as one value, so that a handler is a composition of
\* the functions it calls, in the order it calls them.
Cur == [sessions |-> sessions, heap |-> heap, procs |-> procs, conns |-> conns]

Set(m) ==
    /\ sessions' = m.sessions
    /\ heap' = m.heap
    /\ procs' = m.procs
    /\ conns' = m.conns
    /\ UNCHANGED <<exec, dec>>

\* One HTTP request and its response stream `res`.
\*   kind, pc   the handler and the await it is suspended at
\*   sess       the handler's local variable `session`
\*   resume     the Follow-up's resumeId
\*   aborted    the runner the handler called abort() on at its entry
\*   written    the events res.write() delivered, in order
\*   late       res.write() was called after the response was ended or
\*              its transport closed
\*   ended      the number of res.end() calls
\*   closed     the transport's 'close' has been emitted
\*   onClose    the session objects whose sseClients a 'close' listener
\*              of this connection deletes it from
\*   status     the HTTP status of the response
\*   body       the JSON body of a response that is not a stream
NewConn(kind, id, pc, status) ==
    [kind |-> kind, id |-> id, pc |-> pc, sess |-> Null, resume |-> NoToken,
     aborted |-> Null, written |-> <<>>, late |-> FALSE, ended |-> 0,
     closed |-> FALSE, onClose |-> {}, status |-> status, body |-> Null]

Min(a, b) == IF a < b THEN a ELSE b

(* ------------------- gemini-cli: the process wrapper ------------------ *)

\* mutant of abort: no signal is sent
abort_NoSignal(m, p) == m

\* mutant of kill: the signal is sent whatever the state of the process
kill_Always(m, p, signal) ==
    IF signal = "SIGTERM"
    THEN [m EXCEPT !.procs[p].sigterm = TRUE, !.procs[p].killed = TRUE]
    ELSE [m EXCEPT !.procs[p].sigkill = TRUE, !.procs[p].killed = TRUE]

\* proc.kill(signal): the signal is sent, and proc.killed set, only while
\* the process has a handle (it was spawned and has not exited); proc.killed
\* says that a signal was sent, not that the process is gone
kill(m, p, signal) ==
    IF m.procs[p].state = "alive"
    THEN IF signal = "SIGTERM"
         THEN [m EXCEPT !.procs[p].sigterm = TRUE, !.procs[p].killed = TRUE]
         ELSE [m EXCEPT !.procs[p].sigkill = TRUE, !.procs[p].killed = TRUE]
    ELSE m

\* emitter.abort: proc.kill('SIGTERM'), and setTimeout(..., 3000)
abort(m, p) ==
    [kill(m, p, "SIGTERM") EXCEPT !.procs[p].timers = @ + 1]

\* the callback of abort's timer: if (!proc.killed) proc.kill('SIGKILL')
abortTimeout(m, p) ==
    LET m1 == [m EXCEPT !.procs[p].timers = @ - 1]
    IN  IF ~m.procs[p].killed THEN kill(m1, p, "SIGKILL") ELSE m1

\* the grace period of an abort of process p elapses
AbortTimer(p) ==
    /\ p \in DOMAIN procs
    /\ procs[p].timers > 0
    /\ Set(abortTimeout(Cur, p))

\* spawnGeminiCli, with the listeners the calling handler registers on the
\* runner in the same turn: kind names the handler, s is the session object
\* its closures hold, r its request. ok: the executable could be spawned.
spawnGeminiCli(m, kind, id, s, r, ok) ==
    [m EXCEPT !.procs = Append(@,
        [state |-> IF ok THEN "alive" ELSE "failed", sigterm |-> FALSE,
         sigkill |-> FALSE, killed |-> FALSE, timers |-> 0,
         kind |-> kind, id |-> id, session |-> s, req |-> r,
         resume |-> m.conns[r].resume, lines |-> 0])]

(* --------------------------- session-store ---------------------------- *)

getSession(m, id) == m.sessions[id]

createSession(m, id, runner) ==
    [m EXCEPT
        !.heap = Append(@, [experimentId |-> id, cliSessionId |-> NoToken,
                            status |-> "running", runner |-> runner,
                            events |-> <<>>, sseClients |-> {}]),
        !.sessions[id] = Len(m.heap) + 1]

deleteSession(m, id) ==
    LET s == m.sessions[id]
        m1 == IF s # Null /\ m.heap[s].runner # Null
              THEN abort(m, m.heap[s].runner) ELSE m
    IN  [m1 EXCEPT !.sessions[id] = Null]

addSseClient(m, id, c) ==
    LET s == m.sessions[id]
    IN  IF s # Null
        THEN [m EXCEPT !.heap[s].sseClients = @ \cup {c},
                       !.conns[c].onClose = @ \cup {s}]
        ELSE m

\* res.write(data): a response that was ended, or whose transport is gone,
\* delivers nothing
write(m, c, e) ==
    IF m.conns[c].ended > 0 \/ m.conns[c].closed
    THEN [m EXCEPT !.conns[c].late = TRUE]
    ELSE [m EXCEPT !.conns[c].written = Append(@, e)]

\* res.end()
end(m, c) == [m EXCEPT !.conns[c].ended = Min(@ + 1, 2)]

\* for (const client of clients) client.write(data)
writeAll(m, clients, e) ==
    [m EXCEPT !.conns = [c \in DOMAIN @ |->
        IF c \in clients THEN write(m, c, e).conns[c] ELSE @[c]]]

\* mutant of endAll: no client is ended
endAll_None(m, clients) == m

\* for (const client of clients) client.end()
endAll(m, clients) ==
    [m EXCEPT !.conns = [c \in DOMAIN @ |->
        IF c \in clients THEN end(m, c).conns[c] ELSE @[c]]]

\* mutant of broadcastEvent: the event is logged, the sinks are not written
broadcastEvent_LogOnly(m, id, e) ==
    LET s == m.sessions[id]
    IN  IF s = Null THEN m ELSE [m EXCEPT !.heap[s].events = Append(@, e)]

\* mutant of broadcastEvent: the event is put in front of the log
broadcastEvent_Prepend(m, id, e) ==
    LET s == m.sessions[id]
    IN  IF s = Null
        THEN m
        ELSE writeAll([m EXCEPT !.heap[s].events = <<e>> \o @],
                      m.heap[s].sseClients, e)

broadcastEvent(m, id, e) ==
    LET s == m.sessions[id]
    IN  IF s = Null
        THEN m
        ELSE writeAll([m EXCEPT !.heap[s].events = Append(@, e)],
                      m.heap[s].sseClients, e)

(* ------------------------------- Init --------------------------------- *)

\* no execute request
ExecOff == [pc |-> "off"]

\* no decoder under observation
DecOff == [pc |-> "off"]

Init ==
    /\ sessions = [id \in ExpIds |-> Null]
    /\ heap = <<>>
    /\ procs = <<>>
    /\ conns = <<>>
    /\ exec = ExecOff
    /\ dec = DecOff

(* ------------------------- POST /start -------------------------------- *)

\* what a Start request may carry as experimentId and hypothesis ("": absent)
StartIds == ExpIds \cup {""}
Hypotheses == {"", "h"}

\* mutant of StartValid: only the experiment id is required
StartValid_IdOnly(id, hypothesis) == id # ""

\* if (!experimentId || !hypothesis) is false
StartValid(id, hypothesis) == id # "" /\ hypothesis # ""

\* Start that fails validation: res.status(400).json(...) and return
StartRejected(id) ==
    Set([Cur EXCEPT !.conns = Append(@,
            [NewConn("start", id, "rejected", "400") EXCEPT !.ended = 1])])

\* Entry of Start for a request that passes validation, up to
\* `await scaffoldWorkspace`: a running session is aborted and deleted.
StartBegin(id) ==
    /\ LET existing == getSession(Cur, id)
           m1 == IF existing # Null /\ heap[existing].status = "running"
                 THEN deleteSession(
                        IF heap[existing].runner # Null
                        THEN abort(Cur, heap[existing].runner) ELSE Cur, id)
                 ELSE Cur
           c  == [NewConn("start", id, "scaffold", "none") EXCEPT !.aborted =
                    IF existing # Null /\ heap[existing].status = "running"
                    THEN heap[existing].runner ELSE Null]
       IN  Set([m1 EXCEPT !.conns = Append(@, c)])

\* scaffoldWorkspace resolved: setupSse, createSession, addSseClient, the
\* first broadcast, up to the await of the upstream research call.
StartScaffolded(r) ==
    /\ r \in DOMAIN conns
    /\ conns[r].kind = "start" /\ conns[r].pc = "scaffold"
    /\ LET id == conns[r].id
           m1 == createSession(Cur, id, Null)
           s  == Len(m1.heap)
           m2 == addSseClient(m1, id, r)
           m3 == broadcastEvent(m2, id, ContactingEvent)
       IN  Set([m3 EXCEPT !.conns[r].pc = "research", !.conns[r].sess = s,
                          !.conns[r].status = "200"])

\* a thought summary read from the upstream stream
StartThinking(r) ==
    /\ r \in DOMAIN conns
    /\ conns[r].kind = "start" /\ conns[r].pc = "research"
    /\ Set(broadcastEvent(Cur, conns[r].id, ThinkingEvent))

\* the upstream call throws (init failed, research failed): the catch block
StartFailed(r) ==
    /\ r \in DOMAIN conns
    /\ conns[r].kind = "start" /\ conns[r].pc = "research"
    /\ Set([broadcastEvent(Cur, conns[r].id, WorkflowFailedEvent)
              EXCEPT !.conns[r].pc = "open"])

\* research is over: the coding agent is spawned and its listeners wired
StartSpawn(r, ok) ==
    /\ r \in DOMAIN conns
    /\ conns[r].kind = "start" /\ conns[r].pc = "research"
    /\ LET id == conns[r].id
           s  == conns[r].sess
           m1 == broadcastEvent(Cur, id, SynthesizedEvent)
           m2 == spawnGeminiCli(m1, "start", id, s, r, ok)
           p  == Len(m2.procs)
       IN  Set([m2 EXCEPT !.heap[s].runner = p, !.heap[s].status = "running",
                          !.conns[r].pc = "open"])

\* the first turn of Start, for whatever the request carries
Start(id, hypothesis) ==
    IF StartValid(id, hypothesis) THEN StartBegin(id) ELSE StartRejected(id)

(* ------------------------- GET /:id/events ---------------------------- *)

\* mutant of replay: the loop starts at the second event
replay_SkipsFirst(m, c, events) ==
    [m EXCEPT !.conns[c].written =
        @ \o (IF events = <<>> THEN <<>> ELSE Tail(events))]

\* for (const event of session.events) res.write(...)
replay(m, c, events) ==
    [m EXCEPT !.conns[c].written = @ \o events]

\* mutant of Attach: the connection becomes a sink whatever the status
Attach_AlwaysSink(id) ==
    /\ getSession(Cur, id) # Null
    /\ LET s  == getSession(Cur, id)
           r  == Len(conns) + 1
           m1 == [Cur EXCEPT !.conns = Append(@, NewConn("attach", id, "open", "200"))]
           m2 == addSseClient(replay(m1, r, heap[s].events), id, r)
       IN  Set([m2 EXCEPT !.conns[r].sess = s])

\* Attach to an id that has a session: the log is replayed, then the
\* connection becomes a sink (running) or gets a done event and is ended.
Attach(id) ==
    /\ getSession(Cur, id) # Null
    /\ LET s  == getSession(Cur, id)
           r  == Len(conns) + 1
           m1 == [Cur EXCEPT !.conns = Append(@, NewConn("attach", id, "open", "200"))]
           m2 == replay(m1, r, heap[s].events)
           m3 == IF heap[s].status = "running"
                 THEN addSseClient(m2, id, r)
                 ELSE end(write(m2, r, ReplayDoneEvent(heap[s].status)), r)
       IN  Set([m3 EXCEPT !.conns[r].sess = s])

(* ------------------------- POST /:id/chat ----------------------------- *)

\* session?.cliSessionId || clientSessionId || undefined
resumeIdOf(m, s, client) ==
    IF s # Null /\ m.heap[s].cliSessionId # NoToken
    THEN m.heap[s].cliSessionId
    ELSE client

\* session.sseClients.clear()
clearClients(m, s) == [m EXCEPT !.heap[s].sseClients = {}]

\* Entry of Follow-up up to `await appendChatMessage`: the session is
\* looked up or created, and a running one with a runner is superseded.
ChatBegin(id, client) ==
    /\ LET s0 == getSession(Cur, id)
           resumeId == resumeIdOf(Cur, s0, client)
           m1 == IF s0 = Null
                 THEN [createSession(Cur, id, Null)
                         EXCEPT !.heap[Len(heap) + 1].cliSessionId = resumeId]
                 ELSE Cur
           s  == IF s0 = Null THEN Len(heap) + 1 ELSE s0
           m2 == IF m1.heap[s].status = "running" /\ m1.heap[s].runner # Null
                 THEN clearClients(
                        endAll(abort(m1, m1.heap[s].runner), m1.heap[s].sseClients), s)
                 ELSE m1
           c  == [NewConn("chat", id, "append", "none")
                    EXCEPT !.sess = s, !.resume = resumeId, !.aborted =
                      IF m1.heap[s].status = "running"
                      THEN m1.heap[s].runner ELSE Null]
       IN  Set([m2 EXCEPT !.conns = Append(@, c)])

\* runner.on('spawn-error') of Follow-up
chatOnSpawnError(m, p) ==
    LET s  == m.procs[p].session
        m1 == [m EXCEPT !.heap[s].status = "failed"]
        m2 == broadcastEvent(m1, m.procs[p].id, SpawnErrorEvent(p))
    IN  end(m2, m.procs[p].req)

\* appendChatMessage resolved: spawn, wire, attach the request's response.
\* A failed spawn emits 'error' on the next tick, before any other turn.
ChatSpawn(r, ok) ==
    /\ r \in DOMAIN conns
    /\ conns[r].kind = "chat" /\ conns[r].pc = "append"
    /\ LET id == conns[r].id
           s  == conns[r].sess
           m1 == spawnGeminiCli(Cur, "chat", id, s, r, ok)
           p  == Len(m1.procs)
           m2 == [m1 EXCEPT !.heap[s].runner = p, !.heap[s].status = "running"]
           m3 == addSseClient(m2, id, r)
           m4 == [m3 EXCEPT !.conns[r].onClose = @ \cup {s},
                            !.conns[r].pc = "open", !.conns[r].status = "200"]
       IN  Set(IF ok THEN m4 ELSE chatOnSpawnError(m4, p))

(* ------------------------- POST /:id/abort ---------------------------- *)

\* mutant of AbortReply: the status is not looked at
AbortReply_AnyStatus(id) ==
    IF getSession(Cur, id) = Null THEN "404" ELSE "200"

\* the response of Abort: 404 unless the id has a running session
AbortReply(id) ==
    LET s == getSession(Cur, id)
    IN  IF s = Null \/ heap[s].status # "running" THEN "404" ELSE "200"

Abort(id) ==
    LET s == getSession(Cur, id)
    IN  IF AbortReply(id) = "404"
        THEN UNCHANGED vars
        ELSE LET m1 == IF heap[s].runner # Null
                       THEN abort(Cur, heap[s].runner) ELSE Cur
                 m2 == [m1 EXCEPT !.heap[s].status = "aborted",
                                  !.heap[s].runner = Null]
                 m3 == broadcastEvent(m2, id, AbortedEvent)
                 m4 == clearClients(endAll(m3, m3.heap[s].sseClients), s)
             IN  Set(m4)

(* ------------------------- GET /:id/status ---------------------------- *)

\* mutant of StatusReply: the event count is the number of sinks
StatusReply_CountsSinks(id) ==
    LET s == getSession(Cur, id)
    IN  IF s = Null
        THEN [status |-> "idle", cliSessionId |-> NoToken,
              startedAt |-> Null, eventCount |-> 0]
        ELSE [status |-> heap[s].status, cliSessionId |-> heap[s].cliSessionId,
              startedAt |-> s, eventCount |-> Cardinality(heap[s].sseClients)]

\* the response of Status; startedAt is fixed when the session object is
\* created and is stood for by the object's index
StatusReply(id) ==
    LET s == getSession(Cur, id)
    IN  IF s = Null
        THEN [status |-> "idle", cliSessionId |-> NoToken,
              startedAt |-> Null, eventCount |-> 0]
        ELSE [status |-> heap[s].status, cliSessionId |-> heap[s].cliSessionId,
              startedAt |-> s, eventCount |-> Len(heap[s].events)]

\* Status: res.json(...) of what StatusReply reads
Status(id) ==
    Set([Cur EXCEPT !.conns = Append(@,
            [NewConn("status", id, "done", "200") EXCEPT
                !.ended = 1, !.body = StatusReply(id)])])

(* ------------------- the runner's listeners and output ---------------- *)

\* mutant of onEvent: the token of an init event is not stored
onEvent_NoToken(m, p, n, kind) ==
    broadcastEvent(m, m.procs[p].id, JsonEvent(p, n, kind))

\* runner.on('event'), the same in Start and Follow-up
onEvent(m, p, n, kind) ==
    LET s  == m.procs[p].session
        m1 == IF kind = "init"
              THEN [m EXCEPT !.heap[s].cliSessionId = AgentToken] ELSE m
    IN  broadcastEvent(m1, m.procs[p].id, JsonEvent(p, n, kind))

\* runner.on('log'), the same in Start and Follow-up
onLog(m, p, n, kind) == broadcastEvent(m, m.procs[p].id, LogEvent(p, n, kind))

\* mutant of statusOfCode: an exit by signal (code null) counts as success
statusOfCode_SignalCompleted(code) ==
    IF code \in {"0", "null"} THEN "completed" ELSE "failed"

\* session.status = code === 0 ? 'completed' : 'failed'
statusOfCode(code) == IF code = "0" THEN "completed" ELSE "failed"

\* runner.on('close') of Start
startOnClose(m, p, code) ==
    LET s  == m.procs[p].session
        st == statusOfCode(code)
        m1 == [m EXCEPT !.heap[s].status = st, !.heap[s].runner = Null]
    IN  broadcastEvent(m1, m.procs[p].id, DoneEvent(p, code, st))

\* runner.on('close') of Follow-up
chatOnClose(m, p, code) ==
    LET s  == m.procs[p].session
        st == statusOfCode(code)
        m1 == [m EXCEPT !.heap[s].status = st, !.heap[s].runner = Null]
        m2 == broadcastEvent(m1, m.procs[p].id, DoneEvent(p, code, st))
    IN  clearClients(endAll(m2, m2.heap[s].sseClients), s)

\* proc.stdout.on('data'), for one complete non-blank line: a JSON line is
\* emitted as 'event' and then under its own type; emitting 'error' on an
\* emitter without an 'error' listener throws inside the try block, and the
\* catch emits the line as 'log'.
stdoutLine(m, p, kind) ==
    LET n  == m.procs[p].lines + 1
        m0 == [m EXCEPT !.procs[p].lines = n]
    IN  IF kind = "nonjson"
        THEN onLog(m0, p, n, kind)
        ELSE IF kind = "error"
             THEN onLog(onEvent(m0, p, n, kind), p, n, kind)
             ELSE onEvent(m0, p, n, kind)

ProcStdout(p, kind) ==
    /\ p \in DOMAIN procs
    /\ procs[p].state = "alive"
    /\ Set(stdoutLine(Cur, p, kind))

\* mutant of procOnClose: 'close' is emitted before the buffered last line
procOnClose_CloseFirst(m, p, frag, code) ==
    LET n  == m.procs[p].lines + 1
        m1 == [m EXCEPT !.procs[p].state = "closed"]
        m2 == IF m.procs[p].kind = "start"
              THEN startOnClose(m1, p, code)
              ELSE chatOnClose(m1, p, code)
    IN  IF frag \in LineKinds \ {"nonjson"}
        THEN onEvent([m2 EXCEPT !.procs[p].lines = n], p, n, frag)
        ELSE m2

\* proc.on('close'): a buffered last line that parses is emitted as 'event'
\* (one that does not parse is ignored), then 'close' is emitted to the
\* handler's listener.
procOnClose(m, p, frag, code) ==
    LET n  == m.procs[p].lines + 1
        m1 == IF frag \in LineKinds \ {"nonjson"}
              THEN onEvent([m EXCEPT !.procs[p].lines = n], p, n, frag)
              ELSE m
        m2 == [m1 EXCEPT !.procs[p].state = "closed"]
    IN  IF m.procs[p].kind = "start"
        THEN startOnClose(m2, p, code)
        ELSE chatOnClose(m2, p, code)

\* a process that ran exits
ProcClose(p, frag, code) ==
    /\ p \in DOMAIN procs
    /\ procs[p].state = "alive"
    /\ Set(procOnClose(Cur, p, frag, code))

\* the close Node emits after the 'error' of a process that failed to spawn
ProcCloseAfterSpawnError(p) ==
    /\ p \in DOMAIN procs
    /\ procs[p].state = "failed"
    /\ Set(procOnClose(Cur, p, "none", SpawnFailCode))

(* ---------------------- the transport of a response ------------------- *)

\* res.on('close') / req.on('close'): the listeners registered so far run
connOnClose(m, c) ==
    [m EXCEPT !.conns[c].closed = TRUE,
              !.heap = [s \in DOMAIN @ |->
                  IF s \in m.conns[c].onClose
                  THEN [@[s] EXCEPT !.sseClients = @ \ {c}]
                  ELSE @[s]]]

\* the client goes away, or the ended response is torn down
ConnClose(c) ==
    /\ c \in DOMAIN conns
    /\ ~conns[c].closed
    /\ Set(connOnClose(Cur, c))

(* ---------------- POST /:id/execute: command streamer ----------------- *)

\* Strings that are taken apart are sequences of one-character strings.
ALLOWED_COMMANDS ==
    {"python", "python3", "pip", "pip3", "jupyter", "ls", "cat", "head", "tail"}

\* getWorkspacePath of experiment e4: "/ws/e4"
WsPath == <<"/", "w", "s", "/", "e", "4">>

\* s.startsWith(prefix)
startsWith(s, prefix) ==
    Len(prefix) <= Len(s) /\ SubSeq(s, 1, Len(prefix)) = prefix

\* s.split('/')
RECURSIVE SplitFrom(_, _, _)
SplitFrom(s, cur, acc) ==
    IF s = <<>> THEN Append(acc, cur)
    ELSE IF Head(s) = "/"
         THEN SplitFrom(Tail(s), <<>>, Append(acc, cur))
         ELSE SplitFrom(Tail(s), Append(cur, Head(s)), acc)

Segments(s) == SplitFrom(s, <<>>, <<>>)

\* path normalisation of an absolute path: '', '.' are dropped, '..' goes
\* up and stays at the root
RECURSIVE Normalize(_, _)
Normalize(segs, stack) ==
    IF segs = <<>> THEN stack
    ELSE LET h == Head(segs)
         IN  IF h = <<>> \/ h = <<".">>
             THEN Normalize(Tail(segs), stack)
             ELSE IF h = <<".", ".">>
                  THEN Normalize(Tail(segs),
                          IF stack = <<>> THEN <<>>
                          ELSE SubSeq(stack, 1, Len(stack) - 1))
                  ELSE Normalize(Tail(segs), Append(stack, h))

RECURSIVE JoinPath(_)
JoinPath(segs) ==
    IF segs = <<>> THEN <<>>
    ELSE <<"/">> \o Head(segs) \o JoinPath(Tail(segs))

\* path.resolve(from, to), from absolute
resolve(from, to) ==
    LET full  == IF to # <<>> /\ Head(to) = "/" THEN to ELSE from \o <<"/">> \o to
        stack == Normalize(Segments(full), <<>>)
    IN  IF stack = <<>> THEN <<"/">> ELSE JoinPath(stack)

\* arg.startsWith('-')
IsFlag(arg) == arg # <<>> /\ Head(arg) = "-"

\* the loop over cmdParts.slice(1): no non-flag argument fails the check
ArgsPass(args) ==
    \A i \in DOMAIN args :
        IsFlag(args[i]) \/ startsWith(resolve(WsPath, args[i]), WsPath)

\* the arguments a command may carry
ExecArgs ==
    { <<"a">>,                                                 \* a
      <<"-", "n">>,                                            \* -n
      <<".", ".", "/", ".", ".", "/", "e", "t", "c">>,         \* ../../etc
      <<"/", "e", "t", "c">>,                                  \* /etc
      <<"s", "/", ".", ".", "/", "a">>,                        \* s/../a
      <<".", ".", "/", "e", "4", "x", "/", "k">> }             \* ../e4x/k

\* the executables of a command; "" is the command of blanks only
Executables == {"cat", "rm", ""}

\* exit codes of a command's process
ExecCodes == {"0", "1", "null"}

\* the two revisions of the router in execute.ts: lines 11-81 (1), which
\* has no proc.on('error'), and lines 93-178 (2), which has
Revisions == {1, 2}

\* a request not yet handled, on a server running revision rev
ExecIdle(rev) ==
    [pc |-> "idle", rev |-> rev, status |-> "none", executable |-> "",
     args |-> <<>>, proc |-> "none", errored |-> FALSE, sigterm |-> FALSE,
     timer |-> FALSE, fired |-> FALSE, written |-> <<>>, ended |-> 0,
     late |-> FALSE, reqClosed |-> FALSE, crashed |-> FALSE, lines |-> 0]

InitExec ==
    /\ sessions = [id \in ExpIds |-> Null]
    /\ heap = <<>>
    /\ procs = <<>>
    /\ conns = <<>>
    /\ exec \in {ExecIdle(rev) : rev \in Revisions}
    /\ dec = DecOff

\* the values of exec after a handler ran
SetExec(x) ==
    /\ exec' = x
    /\ UNCHANGED <<sessions, heap, procs, conns, dec>>

\* res.write of the execute response
execWrite(x, e) ==
    IF x.ended > 0 THEN [x EXCEPT !.late = TRUE]
    ELSE IF x.reqClosed THEN x
         ELSE [x EXCEPT !.written = Append(@, e)]

\* res.end()
execEnd(x) == [x EXCEPT !.ended = Min(@ + 1, 2)]

\* proc.kill('SIGTERM')
execKill(x) == IF x.proc = "alive" THEN [x EXCEPT !.sigterm = TRUE] ELSE x

ExitEvent(code) == [stream |-> "exit", arg |-> code]
LineOut(stream, arg) == [stream |-> stream, arg |-> arg]

\* the JSON answer of a request that is refused
execReject(x, status) == [x EXCEPT !.pc = "done", !.status = status, !.ended = 1]

\* the 'error' of a process that could not be started: revision 2 answers
\* with a synthetic exit; revision 1 has no listener, and an 'error' without
\* listener is thrown and takes the server down
execOnError(x) ==
    LET x0 == [x EXCEPT !.errored = TRUE]
        x1 == [x0 EXCEPT !.timer = FALSE]
        x2 == execWrite(x1, LineOut("stderr", "spawn-error"))
        x3 == execWrite(x2, ExitEvent("-1"))
    IN  IF x.rev = 2 THEN execEnd(x3) ELSE [x0 EXCEPT !.crashed = TRUE]

\* The handler: validation, and for a command that passes, the stream
\* headers, the spawn and the timeout. has: the body carries a command;
\* ok: the executable could be started (if not, 'error' is emitted on the
\* next tick, before any other turn).
Execute(has, executable, args, ok) ==
    /\ exec.pc = "idle"
    /\ LET x == [exec EXCEPT !.executable = executable, !.args = args]
           y == [x EXCEPT !.pc = "running", !.status = "200", !.timer = TRUE,
                          !.proc = IF ok THEN "alive" ELSE "failed"]
       IN  SetExec(
             IF ~has THEN execReject(exec, "400")
             ELSE IF executable \notin ALLOWED_COMMANDS THEN execReject(x, "403")
             ELSE IF ~ArgsPass(args) THEN execReject(x, "403")
             ELSE IF ok THEN y ELSE execOnError(y))

\* the callback of the MAX_TIMEOUT timer
ExecTimeout ==
    /\ exec.pc = "running" /\ ~exec.crashed
    /\ exec.timer
    /\ LET x1 == execKill([exec EXCEPT !.timer = FALSE, !.fired = TRUE])
           x2 == execWrite(x1, LineOut("stderr", "timeout"))
           x3 == execWrite(x2, ExitEvent("-1"))
       IN  SetExec(execEnd(x3))

\* proc.stdout.on('data') / proc.stderr.on('data'), one line
ExecOutput(stream) ==
    /\ exec.pc = "running" /\ ~exec.crashed
    /\ exec.proc = "alive"
    /\ SetExec(execWrite([exec EXCEPT !.lines = @ + 1], LineOut(stream, "line")))

\* proc.on('close')
execOnClose(x, code) ==
    execEnd(execWrite([x EXCEPT !.timer = FALSE, !.proc = "closed"], ExitEvent(code)))

\* the process exits, or the close that follows the 'error' of a failed spawn
ExecProcClose(code) ==
    /\ exec.pc = "running" /\ ~exec.crashed
    /\ \/ exec.proc = "alive" /\ code \in ExecCodes
       \/ exec.proc = "failed" /\ exec.errored /\ code = SpawnFailCode
    /\ SetExec(execOnClose(exec, code))

\* req.on('close')
ExecReqClose ==
    /\ exec.pc = "running" /\ ~exec.crashed
    /\ ~exec.reqClosed
    /\ SetExec(execKill([exec EXCEPT !.timer = FALSE, !.reqClosed = TRUE]))

\* the commands of up to MaxArgs arguments
ArgLists == UNION {[1..n -> ExecArgs] : n \in 0..MaxArgs}

NextExec ==
    \/ \E has \in BOOLEAN, executable \in Executables, args \in ArgLists,
          ok \in BOOLEAN :
          /\ ~has => (executable = "" /\ args = <<>>)
          /\ Execute(has, executable, args, ok)
    \/ ExecTimeout
    \/ \E stream \in {"stdout", "stderr"} :
          exec.pc = "running" /\ exec.lines < MaxExecLines /\ ExecOutput(stream)
    \/ \E code \in ExecCodes \cup {SpawnFailCode} : ExecProcClose(code)
    \/ ExecReqClose

SpecExec == InitExec /\ [][NextExec]_vars

(* ------------- gemini-cli: decoding stdout into lines ----------------- *)

\* The characters of stdout that matter to the decoder: a letter, a blank,
\* the newline, and a character of two bytes in UTF-8 (e-acute, C3 A9).
LF == "LF"
Chars == {"a", " ", LF, "e'"}

\* U+FFFD, what an incomplete or stray byte decodes to
Replacement == "?"

\* the bytes of a text in UTF-8
RECURSIVE utf8(_)
utf8(text) ==
    IF text = <<>> THEN <<>>
    ELSE (IF Head(text) = "e'" THEN <<"C3", "A9">> ELSE <<Head(text)>>)
         \o utf8(Tail(text))

\* chunk.toString(): each chunk is decoded by itself
RECURSIVE toString(_)
toString(bytes) ==
    IF bytes = <<>> THEN <<>>
    ELSE IF Head(bytes) = "C3"
         THEN IF Len(bytes) >= 2 /\ bytes[2] = "A9"
              THEN <<"e'">> \o toString(Tail(Tail(bytes)))
              ELSE <<Replacement>> \o toString(Tail(bytes))
         ELSE IF Head(bytes) = "A9"
              THEN <<Replacement>> \o toString(Tail(bytes))
              ELSE <<Head(bytes)>> \o toString(Tail(bytes))

\* buffer.split('\n')
RECURSIVE SplitLines(_, _, _)
SplitLines(s, cur, acc) ==
    IF s = <<>> THEN Append(acc, cur)
    ELSE IF Head(s) = LF
         THEN SplitLines(Tail(s), <<>>, Append(acc, cur))
         ELSE SplitLines(Tail(s), Append(cur, Head(s)), acc)

\* !line.trim()
IsBlank(line) == \A i \in DOMAIN line : line[i] = " "

\* the lines of a sequence of lines that are not blank, in order
RECURSIVE NonBlank(_)
NonBlank(lines) ==
    IF lines = <<>> THEN <<>>
    ELSE (IF IsBlank(Head(lines)) THEN <<>> ELSE <<Head(lines)>>)
         \o NonBlank(Tail(lines))

\* proc.stdout.on('data'): the chunk is appended to the buffer, the last
\* piece stays in the buffer, every other non-blank piece is emitted
onData(d, chunk) ==
    LET lines == SplitLines(d.buffer \o toString(chunk), <<>>, <<>>)
    IN  [d EXCEPT !.buffer = lines[Len(lines)],
                  !.out = @ \o NonBlank(SubSeq(lines, 1, Len(lines) - 1))]

\* a decoder before the first read of what the process writes
DecStart(text) ==
    [pc |-> "reading", content |-> text, rest |-> utf8(text),
     buffer |-> <<>>, out |-> <<>>]

\* the texts of up to MaxContent characters
Texts == UNION {[1..n -> Chars] : n \in 0..MaxContent}

InitDecode ==
    /\ sessions = [id \in ExpIds |-> Null]
    /\ heap = <<>>
    /\ procs = <<>>
    /\ conns = <<>>
    /\ exec = ExecOff
    /\ dec \in {DecStart(text) : text \in Texts}

\* one read of k bytes of what is still to be read
DecData(k) ==
    /\ dec.pc = "reading"
    /\ k \in 1..Len(dec.rest)
    /\ dec' = [onData(dec, SubSeq(dec.rest, 1, k))
                 EXCEPT !.rest = SubSeq(dec.rest, k + 1, Len(dec.rest))]
    /\ UNCHANGED <<sessions, heap, procs, conns, exec>>

NextDecode == \E k \in 1..(2 * MaxContent) : DecData(k)

SpecDecode == InitDecode /\ [][NextDecode]_vars

(* ------------------- workspace-manager: the paths --------------------- *)

\* experiment ids as callers may send them, and their characters
WsIds == {"e1", "e.1", "e2"}

IdChars(id) ==
    CASE id = "e1"  -> <<"e", "1">>
      [] id = "e.1" -> <<"e", ".", "1">>
      [] id = "e2"  -> <<"e", "2">>

\* the characters of these ids that are in [a-zA-Z0-9_-]
IsIdChar(c) == c \in {"e", "1", "2", "_", "-"}

\* experimentId.replace(/[^a-zA-Z0-9_-]/g, '')
RECURSIVE sanitize(_)
sanitize(chars) ==
    IF chars = <<>> THEN <<>>
    ELSE (IF IsIdChar(Head(chars)) THEN <<Head(chars)>> ELSE <<>>)
         \o sanitize(Tail(chars))

WORKSPACE_ROOT == <<"/", "w", "s">>

\* path.join(WORKSPACE_ROOT, sanitized)
getWorkspacePath(id) ==
    IF sanitize(IdChars(id)) = <<>> THEN WORKSPACE_ROOT
    ELSE WORKSPACE_ROOT \o <<"/">> \o sanitize(IdChars(id))

\* the working directory a process was spawned with (cwd: wsPath)
cwd(p) == getWorkspacePath(procs[p].id)

\* the registry over these ids
InitWs ==
    /\ sessions = [id \in WsIds |-> Null]
    /\ heap = <<>>
    /\ procs = <<>>
    /\ conns = <<>>
    /\ exec = ExecOff
    /\ dec = DecOff

\* Start and Follow-up requests for several experiments, and their
\* processes' exits
NextWs ==
    \/ \E id \in WsIds : Len(conns) < MaxReqs /\ StartBegin(id)
    \/ \E r \in 1..MaxReqs : StartScaffolded(r)
    \/ \E r \in 1..MaxReqs, ok \in BOOLEAN : StartSpawn(r, ok)
    \/ \E id \in WsIds, client \in ClientTokens :
          Len(conns) < MaxReqs /\ ChatBegin(id, client)
    \/ \E r \in 1..MaxReqs, ok \in BOOLEAN : ChatSpawn(r, ok)
    \/ \E p \in 1..MaxReqs, code \in ExitCodes : ProcClose(p, "none", code)
    \/ \E p \in 1..MaxReqs : ProcCloseAfterSpawnError(p)

SpecWs == InitWs /\ [][NextWs]_vars

(* ------------------------------- Next --------------------------------- *)

\* the agent output lines and thinking summaries in a log
Output(events) ==
    Cardinality({i \in DOMAIN events :
        events[i].n > 0 \/ events[i] = ThinkingEvent})

\* the log of the id's current session takes one more line
HasRoom(id) ==
    /\ sessions[id] # Null
    /\ Output(heap[sessions[id]].events) < MaxOutput

\* the clients that went away before their response was ended
Drops == {c \in DOMAIN conns : conns[c].closed /\ conns[c].ended = 0}

\* the requests that spawn an agent (Start, Follow-up)
Runs == {c \in DOMAIN conns : conns[c].kind # "attach"}

\* the unterminated last line in the buffer when the process closes
Frags == {"none"} \cup LineKinds

\* The orchestration of up to MaxReqs overlapping requests for one
\* experiment, without the agent's output: every handler, every exit, every
\* response torn down after it was ended.
Next ==
    \/ \E id \in StartIds, hypothesis \in Hypotheses :
          Len(conns) < MaxReqs /\ Start(id, hypothesis)
    \/ \E r \in 1..MaxReqs : StartScaffolded(r)
    \/ \E r \in 1..MaxReqs : StartFailed(r)
    \/ \E r \in 1..MaxReqs, ok \in BOOLEAN : StartSpawn(r, ok)
    \/ \E id \in ExpIds : Len(conns) < MaxReqs /\ Attach(id)
    \/ \E id \in ExpIds, client \in ClientTokens :
          Len(conns) < MaxReqs /\ ChatBegin(id, client)
    \/ \E r \in 1..MaxReqs, ok \in BOOLEAN : ChatSpawn(r, ok)
    \/ \E id \in ExpIds : Abort(id)
    \/ \E id \in ExpIds : Len(conns) < MaxReqs /\ Status(id)
    \/ \E p \in 1..MaxReqs, code \in ExitCodes : ProcClose(p, "none", code)
    \/ \E p \in 1..MaxReqs : ProcCloseAfterSpawnError(p)
    \/ \E c \in 1..MaxReqs :
          c \in DOMAIN conns /\ conns[c].ended > 0 /\ ConnClose(c)

Spec == Init /\ [][Next]_vars

\* Every awaited call returns or throws, and every spawned process exits or
\* fails to spawn: the continuation of a suspended handler and the close of
\* a process are taken when they stay possible.
Fairness ==
    /\ \A r \in 1..MaxReqs : WF_vars(StartScaffolded(r))
    /\ \A r \in 1..MaxReqs :
          WF_vars(StartFailed(r) \/ \E ok \in BOOLEAN : StartSpawn(r, ok))
    /\ \A r \in 1..MaxReqs : WF_vars(\E ok \in BOOLEAN : ChatSpawn(r, ok))
    /\ \A p \in 1..MaxReqs :
          WF_vars(\E code \in ExitCodes : ProcClose(p, "none", code))
    /\ \A p \in 1..MaxReqs : WF_vars(ProcCloseAfterSpawnError(p))

SpecLive == Spec /\ Fairness

\* The streaming of one agent run: one Start or Follow-up, its output of
\* up to MaxOutput lines, the clients that attach to it and go away.
NextStream ==
    \/ \E id \in ExpIds : Runs = {} /\ StartBegin(id)
    \/ \E r \in 1..MaxSinks : StartScaffolded(r)
    \/ \E r \in 1..MaxSinks :
          r \in DOMAIN conns /\ HasRoom(conns[r].id) /\ StartThinking(r)
    \/ \E r \in 1..MaxSinks : StartFailed(r)
    \/ \E r \in 1..MaxSinks, ok \in BOOLEAN : StartSpawn(r, ok)
    \/ \E id \in ExpIds : Len(conns) < MaxSinks /\ Attach(id)
    \/ \E id \in ExpIds, client \in ClientTokens :
          Runs = {} /\ ChatBegin(id, client)
    \/ \E r \in 1..MaxSinks, ok \in BOOLEAN : ChatSpawn(r, ok)
    \/ \E id \in ExpIds : Abort(id)
    \/ \E p \in 1..MaxSinks, kind \in LineKinds :
          p \in DOMAIN procs /\ HasRoom(procs[p].id) /\ ProcStdout(p, kind)
    \/ \E p \in 1..MaxSinks, frag \in Frags, code \in ExitCodes :
          /\ p \in DOMAIN procs
          /\ frag # "none" => HasRoom(procs[p].id)
          /\ ProcClose(p, frag, code)
    \/ \E p \in 1..MaxSinks : ProcCloseAfterSpawnError(p)
    \/ \E c \in 1..MaxSinks :
          /\ c \in DOMAIN conns
          /\ conns[c].ended = 0 => Cardinality(Drops) < MaxDrops
          /\ ConnClose(c)

SpecStream == Init /\ [][NextStream]_vars

\* Overlapping runs of one experiment with the agents' first output line
\* and the timers of their cancellation.
NextAgent ==
    \/ \E id \in ExpIds : Len(conns) < MaxReqs /\ StartBegin(id)
    \/ \E r \in 1..MaxReqs : StartScaffolded(r)
    \/ \E r \in 1..MaxReqs, ok \in BOOLEAN : StartSpawn(r, ok)
    \/ \E id \in ExpIds, client \in ClientTokens :
          Len(conns) < MaxReqs /\ ChatBegin(id, client)
    \/ \E r \in 1..MaxReqs, ok \in BOOLEAN : ChatSpawn(r, ok)
    \/ \E id \in ExpIds : Abort(id)
    \/ \E p \in 1..MaxReqs :
          /\ p \in DOMAIN procs
          /\ procs[p].lines < MaxLines
          /\ ProcStdout(p, "init")
    \/ \E p \in 1..MaxReqs, code \in ExitCodes : ProcClose(p, "none", code)
    \/ \E p \in 1..MaxReqs : ProcCloseAfterSpawnError(p)
    \/ \E p \in 1..MaxReqs : AbortTimer(p)

SpecAgent == Init /\ [][NextAgent]_vars

(* ------------------------------ claims -------------------------------- *)

\* the subprocesses of an experiment that were spawned and have not exited
Alive(id) == {p \in DOMAIN procs : procs[p].id = id /\ procs[p].state = "alive"}

\* C1: at every instant at most one agent subprocess spawned for an
\* experiment id is alive (spawned, and its close not yet notified).
C1_SingleLiveProcess == \A id \in ExpIds : Cardinality(Alive(id)) <= 1

\* a session is held by index; these read the session of an index
StatusOf(s) == heap[s].status
SinksOf(s) == heap[s].sseClients
LogOf(s) == heap[s].events

IsPrefix(a, b) == Len(a) <= Len(b) /\ SubSeq(b, 1, Len(a)) = a

\* what a step appended to the log of session s
Appended(s) == SubSeq(heap'[s].events, Len(heap[s].events) + 1, Len(heap'[s].events))

\* a response that still delivers what is written to it
Open(c) == conns[c].ended = 0 /\ ~conns[c].closed

\* C2: what was written to a sink attached through Attach/replay is, at
\* every instant, exactly the event log of the session it is attached to:
\* the replayed events first, then every later broadcast once, in order.
C2_ReplayThenLive ==
    \A s \in DOMAIN heap : \A c \in SinksOf(s) :
        conns[c].kind = "attach" => conns[c].written = LogOf(s)

\* C2 witness: an attached sink that was replayed the log and then received
\* the done event of the run live (a sink is only added while running).
C2_Witness ==
    \E s \in DOMAIN heap : \E c \in SinksOf(s) :
        /\ conns[c].kind = "attach"
        /\ StatusOf(s) = "completed"
        /\ Len(conns[c].written) >= 3
        /\ conns[c].written[1] = ContactingEvent
        /\ conns[c].written[Len(conns[c].written)].type = "done"

\* the session the registry holds for an experiment is finished
Finished(id) == sessions[id] # Null /\ StatusOf(sessions[id]) \in Terminal

\* C3: a session whose status is completed, failed or aborted has an empty
\* sink set (in every state, hence also for as long as it stays finished).
C3_TerminalClosure ==
    \A id \in ExpIds : Finished(id) => SinksOf(sessions[id]) = {}

\* a turn of a Start or Follow-up handler: a request arrives or resumes
RequestTurn ==
    \/ Len(conns') > Len(conns)
    \/ \E r \in DOMAIN conns : conns'[r].pc # conns[r].pc

\* C4: a status that is completed, failed or aborted only changes in a turn
\* of a Start or Follow-up handler; the close of an aborted process, which
\* arrives after Abort, leaves it aborted.
C4_TerminalSticky ==
    [][\A s \in DOMAIN heap :
          (StatusOf(s) \in Terminal /\ heap'[s].status # StatusOf(s))
              => RequestTurn]_vars

\* the number of events of a log that are the Abort handler's error event
AbortedEvents(events) ==
    Cardinality({i \in DOMAIN events : events[i] = AbortedEvent})

\* C5: an Abort of a running session makes one transition to aborted and
\* broadcasts one error event, and leaves the session such that the next
\* Abort reports not-found (and so changes nothing).
C5_AbortOnce ==
    [][\A id \in ExpIds :
          (AbortReply(id) = "200" /\ Abort(id)) =>
              LET s == sessions[id]
              IN  /\ sessions'[id] = s
                  /\ heap'[s].status = "aborted"
                  /\ heap'[s].events = Append(LogOf(s), AbortedEvent)
                  /\ AbortReply(id)' = "404"]_vars

\* C5 witness: an Abort was acknowledged for a running session with a sink
C5_Witness ==
    \E id \in ExpIds :
        /\ sessions[id] # Null
        /\ StatusOf(sessions[id]) = "aborted"
        /\ AbortedEvents(LogOf(sessions[id])) = 1
        /\ \E c \in DOMAIN conns :
              /\ conns[c].ended = 1
              /\ conns[c].written # <<>>
              /\ conns[c].written[Len(conns[c].written)] = AbortedEvent

Last(seq) == seq[Len(seq)]

\* C6: when a process writes an invalid-JSON line and then a valid-JSON
\* line, an attached sink observes exactly one log event for the first and
\* then exactly one typed event for the second, and the status stays as it
\* was (running) through both.
C6_MalformedLineTolerance ==
    [][\A p \in DOMAIN procs :
          LET s == sessions[procs[p].id]
          IN  /\ (procs[p].lines = 0 /\ s # Null /\ ProcStdout(p, "nonjson")) =>
                    /\ heap'[s].status = StatusOf(s)
                    /\ \A c \in SinksOf(s) : Open(c) =>
                          conns'[c].written =
                              Append(conns[c].written, LogEvent(p, 1, "nonjson"))
              /\ \A kind \in LineKinds \ {"nonjson"} :
                    (procs[p].lines = 1 /\ s # Null /\ ProcStdout(p, kind)) =>
                        /\ heap'[s].status = StatusOf(s)
                        /\ \A c \in SinksOf(s) :
                              (/\ Open(c)
                               /\ conns[c].written # <<>>
                               /\ Last(conns[c].written) = LogEvent(p, 1, "nonjson")) =>
                                  conns'[c].written =
                                      Append(conns[c].written, JsonEvent(p, 2, kind))]_vars

\* C7: a session whose status is completed, failed or aborted holds no
\* process reference.
C7_TerminalHoldsNoProcess ==
    \A id \in ExpIds : Finished(id) => heap[sessions[id]].runner = Null

\* C8: every sink in the sink set of a session that becomes completed,
\* failed or aborted has been ended once when the turn is over, and no
\* response is ever ended a second time.
C8_SinksEndedExactlyOnce ==
    [][/\ \A c \in DOMAIN conns' : conns'[c].ended <= 1
       /\ \A s \in DOMAIN heap :
            (StatusOf(s) \notin Terminal /\ heap'[s].status \in Terminal) =>
                \A c \in SinksOf(s) : conns'[c].ended = 1]_vars

\* C9: in every turn, what is appended to a session's log is written, once
\* and in the same order, to every sink that is in the session's sink set:
\* delivered if the response is open, a late write if it was ended.
C9_BroadcastReachesSinks ==
    [][\A s \in DOMAIN heap :
          /\ IsPrefix(LogOf(s), heap'[s].events)
          /\ \A c \in SinksOf(s) :
                IF Open(c)
                THEN conns'[c].written = conns[c].written \o Appended(s)
                ELSE /\ conns'[c].written = conns[c].written
                     /\ Appended(s) # <<>> => conns'[c].late]_vars

\* C9 witness: two sinks of one session have both been written its last event
C9_Witness ==
    \E id \in ExpIds :
        /\ sessions[id] # Null
        /\ Len(LogOf(sessions[id])) >= 2
        /\ \E c1, c2 \in SinksOf(sessions[id]) :
              /\ c1 # c2
              /\ conns[c1].written # <<>> /\ conns[c2].written # <<>>
              /\ Last(conns[c1].written) = Last(LogOf(sessions[id]))
              /\ Last(conns[c2].written) = Last(LogOf(sessions[id]))
              /\ Len(conns[c1].written) >= 2

\* C10: a Start that finds the experiment's session running with a live
\* subprocess signals that subprocess and removes the session in its first
\* turn, in which nothing is spawned; and when this second Start (no other
\* request having arrived) spawns in its later turn, the registry holds its
\* session, whose process reference is the process just spawned.
C10_SecondStartSupersedes ==
    [][/\ \A id \in ExpIds :
            LET s == sessions[id]
            IN  (/\ StartBegin(id)
                 /\ s # Null
                 /\ StatusOf(s) = "running"
                 /\ heap[s].runner # Null
                 /\ procs[heap[s].runner].state = "alive") =>
                    /\ procs'[heap[s].runner].sigterm
                    /\ Len(procs') = Len(procs)
                    /\ sessions'[id] = Null
       /\ \A r \in DOMAIN conns :
            (/\ \E ok \in BOOLEAN : StartSpawn(r, ok)
             /\ Len(conns) = 2
             /\ conns[r].aborted # Null
             /\ procs[conns[r].aborted].sigterm) =>
                /\ sessions'[conns[r].id] = conns[r].sess
                /\ heap'[conns[r].sess].runner = Len(procs')
                /\ procs'[Len(procs')].session = conns[r].sess
                /\ Len(procs') = Len(procs) + 1]_vars

\* C10 witness: the second of two Starts has spawned after it signalled the
\* live process of the first
C10_Witness ==
    /\ Len(conns) = 2
    /\ conns[1].kind = "start" /\ conns[2].kind = "start"
    /\ conns[2].pc = "open"
    /\ conns[2].aborted = 1
    /\ Len(procs) = 2
    /\ procs[1].sigterm
    /\ procs[2].state = "alive"
    /\ heap[sessions["e1"]].runner = 2

\* C11: a Follow-up that finds the experiment's session running signals the
\* session's process and ends and clears every sink of the session in its
\* first turn, in which nothing is spawned; and when it spawns, the
\* session's process reference is the new process and its own connection is
\* the only sink.
C11_FollowUpSupersedes ==
    [][/\ \A id \in ExpIds, client \in ClientTokens :
            LET s == sessions[id]
            IN  (/\ ChatBegin(id, client)
                 /\ s # Null
                 /\ StatusOf(s) = "running") =>
                    /\ (heap[s].runner # Null /\ procs[heap[s].runner].state = "alive")
                          => procs'[heap[s].runner].sigterm
                    /\ \A c \in SinksOf(s) : conns'[c].ended >= 1
                    /\ heap'[s].sseClients = {}
                    /\ Len(procs') = Len(procs)
       /\ \A r \in DOMAIN conns :
            (/\ ChatSpawn(r, TRUE)
             /\ conns[r].aborted # Null) =>
                /\ heap'[conns[r].sess].runner = Len(procs')
                /\ Len(procs') = Len(procs) + 1
                /\ heap'[conns[r].sess].sseClients = {r}]_vars

\* C12: an Attach to an experiment whose session is completed, failed or
\* aborted writes the session's log in order, then a done event with the
\* session's status, ends the response, adds it to no sink set and leaves
\* the registry and every session (log, status, sinks) as they were.
C12_AttachFinished ==
    [][\A id \in ExpIds :
          (Attach(id) /\ Finished(id)) =>
              LET s == sessions[id]
                  r == Len(conns) + 1
              IN  /\ conns'[r].written =
                        Append(LogOf(s), ReplayDoneEvent(StatusOf(s)))
                  /\ conns'[r].ended = 1
                  /\ \A s2 \in DOMAIN heap' : r \notin heap'[s2].sseClients
                  /\ heap' = heap
                  /\ sessions' = sessions]_vars

\* C12 witness: an attached connection that was replayed a log of at least
\* two events and the done event of a completed session, and was ended
C12_Witness ==
    \E c \in DOMAIN conns :
        /\ conns[c].kind = "attach"
        /\ conns[c].ended = 1
        /\ Len(conns[c].written) >= 3
        /\ Last(conns[c].written) = ReplayDoneEvent("completed")
        /\ \A s \in DOMAIN heap : c \notin SinksOf(s)

\* the last k elements of a sequence
LastN(seq, k) == SubSeq(seq, Len(seq) - k + 1, Len(seq))

\* the session of process p is in the registry, running, with p its process
Current(p) ==
    /\ sessions[procs[p].id] = procs[p].session
    /\ StatusOf(procs[p].session) = "running"
    /\ heap[procs[p].session].runner = p

\* C13: when the agent of a Start has written an init event and then an
\* assistant message event and exits with code 0, every open sink of the
\* session has received init, message and done(completed) in that order as
\* its last events, and Status reports completed and the init event's token.
C13_StartHappyPath ==
    [][\A p \in DOMAIN procs :
          LET s == procs[p].session
          IN  (/\ ProcClose(p, "none", "0")
               /\ procs[p].kind = "start"
               /\ Current(p)
               /\ procs[p].lines = 2
               /\ LastN(LogOf(s), 2) =
                     <<JsonEvent(p, 1, "init"), JsonEvent(p, 2, "message")>>) =>
                  /\ StatusReply(procs[p].id)'.status = "completed"
                  /\ StatusReply(procs[p].id)'.cliSessionId = AgentToken
                  /\ \A c \in SinksOf(s) : Open(c) =>
                        LastN(conns'[c].written, 3) =
                            <<JsonEvent(p, 1, "init"), JsonEvent(p, 2, "message"),
                              DoneEvent(p, "0", "completed")>>]_vars

\* C13 witness: the connection of a Start has received init, message and
\* done(completed) last, and the session is completed with the token
C13_Witness ==
    \E c \in DOMAIN conns :
        /\ conns[c].kind = "start" /\ conns[c].sess # Null
        /\ Len(conns[c].written) >= 3
        /\ LastN(conns[c].written, 3)[1].type = "init"
        /\ LastN(conns[c].written, 3)[2] = JsonEvent(1, 2, "message")
        /\ LastN(conns[c].written, 3)[3] = DoneEvent(1, "0", "completed")
        /\ StatusOf(conns[c].sess) = "completed"
        /\ heap[conns[c].sess].cliSessionId = AgentToken

\* C14: a Start without experiment id or without hypothesis is answered 400
\* in its first turn and its response ended; no process is spawned, the
\* registry and every session are as before, and Status answers for every
\* experiment what it answered before.
C14_InvalidStartRejected ==
    [][\A id \in StartIds, hypothesis \in Hypotheses :
          ((id = "" \/ hypothesis = "") /\ Start(id, hypothesis)) =>
              /\ Len(conns') = Len(conns) + 1
              /\ conns'[Len(conns')].status = "400"
              /\ conns'[Len(conns')].ended = 1
              /\ procs' = procs
              /\ sessions' = sessions
              /\ heap' = heap
              /\ \A e \in ExpIds : StatusReply(e)' = StatusReply(e)]_vars

\* C14 witness: a Start was answered 400 while the experiment had a running
\* session with events, which is still there
C14_Witness ==
    /\ Len(conns) = 2
    /\ conns[2].status = "400" /\ conns[2].id = "e1"
    /\ sessions["e1"] # Null
    /\ StatusOf(sessions["e1"]) = "running"
    /\ LogOf(sessions["e1"]) # <<>>
    /\ SinksOf(sessions["e1"]) = {1}

\* C15: an Abort of a running session signals the session's process, sets
\* the status to aborted and the process reference to null, and every open
\* sink of the session is written the Abort's error event last and is
\* ended; the sink set is empty afterwards.
C15_AbortClosesSinks ==
    [][\A id \in ExpIds :
          (AbortReply(id) = "200" /\ Abort(id)) =>
              LET s == sessions[id]
              IN  /\ (heap[s].runner # Null /\ procs[heap[s].runner].state = "alive")
                        => procs'[heap[s].runner].sigterm
                  /\ heap'[s].status = "aborted"
                  /\ heap'[s].runner = Null
                  /\ \A c \in SinksOf(s) : Open(c) =>
                        /\ conns'[c].written = Append(conns[c].written, AbortedEvent)
                        /\ conns'[c].ended = 1
                  /\ heap'[s].sseClients = {}]_vars

\* C15 witness: the process of an aborted session was signalled, and the
\* two sinks the session had were written the error event last and ended
C15_Witness ==
    /\ Len(conns) = 2 /\ Len(procs) = 1
    /\ procs[1].sigterm
    /\ sessions["e1"] # Null
    /\ StatusOf(sessions["e1"]) = "aborted"
    /\ heap[sessions["e1"]].runner = Null
    /\ SinksOf(sessions["e1"]) = {}
    /\ \A c \in {1, 2} :
          /\ conns[c].ended = 1
          /\ conns[c].written # <<>>
          /\ Last(conns[c].written) = AbortedEvent

\* C16: when the current process of a running session exits, every open
\* sink of the session is written the done event with the exit code and the
\* final status as its last event and is ended.
C16_ExitClosesSinks ==
    [][\A p \in DOMAIN procs, code \in ExitCodes :
          (ProcClose(p, "none", code) /\ Current(p)) =>
              \A c \in SinksOf(procs[p].session) : Open(c) =>
                  /\ conns'[c].written =
                        Append(conns[c].written,
                               DoneEvent(p, code, IF code = "0" THEN "completed"
                                                               ELSE "failed"))
                  /\ conns'[c].ended = 1]_vars

\* C17: when the process a Start or a Follow-up spawns reports a spawn
\* error, the session's status is failed, the last event of the experiment's
\* log is the error event of that process, and the requesting connection
\* has been ended.
C17_SpawnErrorFails ==
    [][\A r \in DOMAIN conns :
          (StartSpawn(r, FALSE) \/ ChatSpawn(r, FALSE)) =>
              /\ heap'[conns[r].sess].status = "failed"
              /\ sessions'[conns[r].id] # Null
              /\ heap'[sessions'[conns[r].id]].events # <<>>
              /\ Last(heap'[sessions'[conns[r].id]].events) =
                    SpawnErrorEvent(Len(procs'))
              /\ conns'[r].ended >= 1]_vars

\* C18: on the close of the process that is the process reference of the
\* experiment's session, the status becomes completed exactly when the exit
\* code is 0 and failed for every other code (1, null, the -2 of a failed
\* spawn), and the last event of the log is the done event with that code
\* and that status.
C18_StatusFromExitCode ==
    [][\A p \in DOMAIN procs, code \in ExitCodes \cup {SpawnFailCode} :
          LET s == procs[p].session
          IN  (/\ \/ ProcClose(p, "none", code)
                  \/ code = SpawnFailCode /\ ProcCloseAfterSpawnError(p)
               /\ sessions[procs[p].id] = s
               /\ heap[s].runner = p) =>
                  /\ (code = "0") <=> (heap'[s].status = "completed")
                  /\ (code # "0") <=> (heap'[s].status = "failed")
                  /\ Last(heap'[s].events) =
                        Ev("done", p, 0, code, heap'[s].status)]_vars

\* C18 witness: a session is failed after its process, which nobody
\* signalled, closed with a null exit code
C18_Witness ==
    \E id \in ExpIds :
        /\ sessions[id] # Null
        /\ StatusOf(sessions[id]) = "failed"
        /\ heap[sessions[id]].runner = Null
        /\ LogOf(sessions[id]) # <<>>
        /\ Last(LogOf(sessions[id])) = DoneEvent(1, "null", "failed")
        /\ ~procs[1].sigterm

\* the session the registry holds for an experiment has a token
HoldsToken(id) ==
    sessions[id] # Null /\ heap[sessions[id]].cliSessionId # NoToken

\* C19: the resume token of a Follow-up is resolved as the registry
\* session's token if it holds one, else the caller's token, else none; a
\* session the Follow-up creates stores the caller's token; and the process
\* the Follow-up spawns is given the registry session's token whenever the
\* registry holds one, else the resolved token.
C19_ResumeTokenOrder ==
    [][/\ \A id \in ExpIds, client \in ClientTokens :
            ChatBegin(id, client) =>
                /\ conns'[Len(conns')].resume =
                      IF HoldsToken(id)
                      THEN heap[sessions[id]].cliSessionId ELSE client
                /\ sessions[id] = Null =>
                      heap'[sessions'[id]].cliSessionId = client
       /\ \A r \in DOMAIN conns, ok \in BOOLEAN :
            ChatSpawn(r, ok) =>
                procs'[Len(procs')].resume =
                    IF HoldsToken(conns[r].id)
                    THEN heap[sessions[conns[r].id]].cliSessionId
                    ELSE conns[r].resume]_vars

\* C20: a cancellation sends SIGTERM to a running process at once, and when
\* the grace period of a cancellation elapses while the process, though
\* sent SIGTERM, has not exited, SIGKILL is sent to it.
C20_GraceThenForce ==
    [][\A p \in DOMAIN procs :
          /\ (procs'[p].timers > procs[p].timers /\ procs[p].state = "alive")
                => procs'[p].sigterm
          /\ (AbortTimer(p) /\ procs[p].state = "alive" /\ procs[p].sigterm)
                => procs'[p].sigkill]_vars

\* a machine state without the count of pending cancellation timers of p
NoTimers(m, p) == [m EXCEPT !.procs[p].timers = 0]

\* C21: cancelling a process that is not running (it exited, or never
\* started) sends no signal and notifies nobody, also when its timer fires;
\* cancelling a running process twice leaves what cancelling it once
\* leaves, also after the timers fired; and a process that has closed
\* never closes again nor is sent a signal.
C21_AbortIdempotent ==
    [][\A p \in DOMAIN procs :
          /\ procs[p].state # "alive" =>
                /\ NoTimers(abort(Cur, p), p) = NoTimers(Cur, p)
                /\ abortTimeout(abort(Cur, p), p) = Cur
          /\ procs[p].state = "alive" =>
                /\ NoTimers(abort(abort(Cur, p), p), p) = NoTimers(abort(Cur, p), p)
                /\ abortTimeout(abortTimeout(abort(abort(Cur, p), p), p), p)
                      = abortTimeout(abort(Cur, p), p)
          /\ procs[p].state = "closed" =>
                [procs'[p] EXCEPT !.timers = 0] = [procs[p] EXCEPT !.timers = 0]]_vars

\* C21 witness: a process was cancelled twice (Start's cleanup calls abort
\* and then deleteSession, which calls it again), and has exited
C21_Witness ==
    \E p \in DOMAIN procs :
        /\ procs[p].timers >= 2
        /\ procs[p].sigterm
        /\ procs[p].state = "closed"

\* the notification a stdout line of the given kind should result in
LineEvent(p, n, kind) ==
    IF kind = "nonjson" THEN LogEvent(p, n, kind) ELSE JsonEvent(p, n, kind)

\* C22: every non-blank stdout line results in exactly one notification,
\* an event when it parses as JSON and a log with the raw line when it does
\* not, and so does the unterminated last line in the buffer at the close
\* (where the done event follows it).
C22_NoLineDiscarded ==
    [][\A p \in DOMAIN procs :
          LET s == sessions[procs[p].id]
              n == procs[p].lines + 1
          IN  s # Null =>
                /\ \A kind \in LineKinds :
                      ProcStdout(p, kind) =>
                          Appended(s) = <<LineEvent(p, n, kind)>>
                /\ \A frag \in LineKinds, code \in ExitCodes :
                      ProcClose(p, frag, code) =>
                          /\ Len(Appended(s)) = 2
                          /\ Appended(s)[1] = LineEvent(p, n, frag)
                          /\ Appended(s)[2].type = "done"]_vars

\* C23: when the client of a Start or Follow-up goes away while its
\* response is still open and the session it streams has a running process,
\* that process is sent the termination signal in the same turn, as an Abort
\* would.
C23_DroppedClientCancels ==
    [][\A c \in DOMAIN conns :
          (/\ ConnClose(c)
           /\ conns[c].ended = 0
           /\ conns[c].kind \in {"start", "chat"}
           /\ conns[c].sess # Null
           /\ heap[conns[c].sess].runner # Null
           /\ procs[heap[conns[c].sess].runner].state = "alive") =>
              procs'[heap[conns[c].sess].runner].sigterm]_vars

\* the events of a sequence that originate from process p
FromProc(events, p) == {i \in DOMAIN events : events[i].src = p}

\* C24: once a later process has been spawned for the experiment, no event
\* that originates from an earlier process (its output, the done event of
\* its close) is appended to the log of the experiment's session or written
\* to a sink of that session.
C24_NoInterleaving ==
    [][\A p \in DOMAIN procs, q \in DOMAIN procs :
          (p < q /\ procs[p].id = procs[q].id /\ sessions[procs[p].id] # Null) =>
              LET s == sessions[procs[p].id]
              IN  /\ FromProc(Appended(s), p) = {}
                  /\ \A c \in SinksOf(s) :
                        FromProc(SubSeq(conns'[c].written, Len(conns[c].written) + 1,
                                        Len(conns'[c].written)), p) = {}]_vars

\* C25: no response is ever written by a broadcast after it was ended or
\* its transport closed.
C25_NoWriteAfterEnd == \A c \in DOMAIN conns : ~conns[c].late

\* C26: Status answers idle, no token, no start time and zero events for an
\* id without session, and otherwise the session's status, token, start
\* time and the length of its log; it changes neither the registry nor any
\* session (status, process reference, log, sinks) nor any process.
C26_StatusPureRead ==
    [][\A id \in ExpIds :
          Status(id) =>
              LET s == sessions[id]
                  b == conns'[Len(conns')].body
              IN  /\ s = Null =>
                        b = [status |-> "idle", cliSessionId |-> NoToken,
                             startedAt |-> Null, eventCount |-> 0]
                  /\ s # Null =>
                        /\ b.status = heap[s].status
                        /\ b.cliSessionId = heap[s].cliSessionId
                        /\ b.startedAt = s
                        /\ b.eventCount = Len(heap[s].events)
                  /\ sessions' = sessions
                  /\ heap' = heap
                  /\ procs' = procs]_vars

\* C26 witness: a Status was answered for a completed session with three
\* events or more and a sink still in its set
C26_Witness ==
    \E c \in DOMAIN conns :
        /\ conns[c].kind = "status"
        /\ conns[c].body.status = "completed"
        /\ conns[c].body.eventCount >= 3
        /\ SinksOf(sessions[conns[c].id]) # {}

\* a path is the root or below it, segment by segment
Inside(path, root) ==
    LET p == Normalize(Segments(path), <<>>)
        r == Normalize(Segments(root), <<>>)
    IN  Len(r) <= Len(p) /\ SubSeq(p, 1, Len(r)) = r

\* C27: the execute handler starts a process only for a command whose
\* leading token is in the allow-list and whose every non-flag argument
\* resolves, from the workspace root, to the root or a path below it;
\* otherwise the request is answered with an error and nothing is started.
C27_ExecuteConfined ==
    [][(exec.pc = "idle" /\ exec'.proc # "none") =>
          /\ exec'.executable \in ALLOWED_COMMANDS
          /\ \A i \in DOMAIN exec'.args :
                \/ IsFlag(exec'.args[i])
                \/ Inside(resolve(WsPath, exec'.args[i]), WsPath)]_vars

\* the exit events of a response
ExitEvents(written) == {i \in DOMAIN written : written[i].stream = "exit"}

\* C28: the response of a command execution is never written after it was
\* ended and is ended once; a response that was ended carries exactly one
\* exit event, as its last event; and when the timeout fired that event is
\* the synthetic failure with code -1.
C28_ExecSingleExit ==
    (exec.pc = "running" /\ ~exec.crashed) =>
        /\ ~exec.late
        /\ exec.ended <= 1
        /\ Cardinality(ExitEvents(exec.written)) <= 1
        /\ (exec.ended = 1 /\ ~exec.reqClosed) =>
              /\ Cardinality(ExitEvents(exec.written)) = 1
              /\ exec.written[Len(exec.written)].stream = "exit"
        /\ (exec.fired /\ ~exec.reqClosed) =>
              exec.written[Len(exec.written)] = ExitEvent("-1")

\* C29: when of two Start or Follow-up requests for one experiment the one
\* received first spawned after the one received last (so the second was
\* handled while the first was suspended at an await), the session's
\* process reference is the process of the request received last and the
\* process of the other request is not alive.
C29_LastRequestWins ==
    \A p1 \in DOMAIN procs, p2 \in DOMAIN procs :
        (/\ procs[p1].req < procs[p2].req
         /\ p2 < p1
         /\ procs[p1].id = procs[p2].id
         /\ procs[p2].state = "alive") =>
            /\ sessions[procs[p2].id] # Null
            /\ heap[sessions[procs[p2].id]].runner = p2
            /\ procs[p1].state # "alive"

\* what the decoder emits for a text delivered as a single chunk
SingleChunk(text) == onData(DecStart(text), utf8(text))

\* C30: however the stdout content is split into chunks, what has been
\* emitted is a prefix of what the same content emits as a single chunk
\* (no line early, twice or out of order), and once everything was read the
\* emitted lines are exactly those of the single chunk.
C30_ChunkingInvariant ==
    dec.pc = "reading" =>
        /\ IsPrefix(dec.out, SingleChunk(dec.content).out)
        /\ dec.rest = <<>> => dec.out = SingleChunk(dec.content).out

\* the done events in a sequence of events
Dones(events) == {i \in DOMAIN events : events[i].type = "done"}

\* C31: when a process closes with a buffered last line that parses as
\* JSON, that line's event is notified and then, once, the close (the done
\* event of the handler's listener, with the status of the exit code); a
\* close is notified once per process, and after it nothing that originates
\* from the process is notified to any session.
C31_FlushThenClose ==
    [][\A p \in DOMAIN procs :
          LET s == sessions[procs[p].id]
              n == procs[p].lines + 1
          IN  /\ procs[p].state = "closed" =>
                    /\ procs'[p].state = "closed"
                    /\ \A h \in DOMAIN heap : FromProc(Appended(h), p) = {}
              /\ \A frag \in LineKinds \ {"nonjson"}, code \in ExitCodes :
                    (s # Null /\ ProcClose(p, frag, code)) =>
                        Appended(s) = <<JsonEvent(p, n, frag),
                                        DoneEvent(p, code, statusOfCode(code))>>
              /\ (s # Null /\ procs[p].state # "closed"
                            /\ procs'[p].state = "closed") =>
                    /\ Cardinality(Dones(Appended(s))) = 1
                    /\ Last(Appended(s)).type = "done"
                    /\ Last(Appended(s)).src = p]_vars

\* a process closed with a buffered JSON line: its event, then the done
C31_Witness ==
    \E p \in DOMAIN procs, id \in ExpIds :
        /\ procs[p].state = "closed"
        /\ procs[p].id = id
        /\ sessions[id] # Null
        /\ Len(LogOf(sessions[id])) >= 2
        /\ LET tail == LastN(LogOf(sessions[id]), 2)
           IN  /\ tail[1].src = p /\ tail[1].n = procs[p].lines
               /\ tail[1].arg = "json"
               /\ tail[2].src = p /\ tail[2].type = "done"

\* C32: within one session record the log only grows at its end: in every
\* step, whatever handler or notification takes it, the log before is a
\* prefix of the log after, and the event count Status reports for an id
\* whose session record stays the same does not decrease.
C32_LogAppendOnly ==
    [][/\ \A s \in DOMAIN heap : IsPrefix(LogOf(s), heap'[s].events)
       /\ \A id \in ExpIds :
             (sessions[id] # Null /\ sessions'[id] = sessions[id]) =>
                 StatusReply(id)'.eventCount >= StatusReply(id).eventCount]_vars

\* a session record reused by a Follow-up, with events of both its runs
C32_Witness ==
    \E s \in DOMAIN heap, p \in DOMAIN procs, q \in DOMAIN procs :
        /\ procs[p].kind = "start" /\ procs[q].kind = "chat"
        /\ procs[p].session = s /\ procs[q].session = s
        /\ FromProc(LogOf(s), p) # {}
        /\ FromProc(LogOf(s), q) # {}
        /\ AbortedEvents(LogOf(s)) > 0

\* C33: when a process closes that a Follow-up or a Start superseded (the
\* request aborted it at its entry and then spawned its own process, which
\* is the running session's process), the successor's session keeps its
\* status running, its process reference and its sinks, none of which is
\* ended.
C33_SupersededCloseHarmless ==
    [][\A p \in DOMAIN procs, q \in DOMAIN procs :
          LET s == procs[q].session
          IN  (/\ p < q
               /\ procs[p].id = procs[q].id
               /\ conns[procs[q].req].aborted = p
               /\ procs[p].state = "alive"
               /\ procs'[p].state = "closed"
               /\ procs[q].state = "alive"
               /\ sessions[procs[q].id] = s
               /\ heap[s].runner = q
               /\ StatusOf(s) = "running") =>
                  /\ heap'[s].status = "running"
                  /\ heap'[s].runner = q
                  /\ heap'[s].sseClients = SinksOf(s)
                  /\ \A c \in SinksOf(s) : conns'[c].ended = conns[c].ended]_vars

\* C34: every live subprocess that has not been sent a signal yet is the
\* process of the registry's session for its experiment id, and that
\* session is not terminal: an Abort for the id reaches it. (A process
\* that was signalled and has not exited yet is left out.)
C34_LiveProcessReachable ==
    \A p \in DOMAIN procs :
        (procs[p].state = "alive" /\ ~procs[p].sigterm) =>
            /\ sessions[procs[p].id] # Null
            /\ StatusOf(sessions[procs[p].id]) \notin Terminal
            /\ heap[sessions[procs[p].id]].runner = p

\* C35: when the session a Start created was aborted while the Start was
\* suspended before its spawn, the Start's continuation spawns no process
\* and leaves the session aborted.
C35_AbortedStartStaysAborted ==
    [][\A r \in DOMAIN conns, ok \in BOOLEAN :
          (/\ conns[r].kind = "start"
           /\ conns[r].sess # Null
           /\ StatusOf(conns[r].sess) = "aborted"
           /\ StartSpawn(r, ok)) =>
              /\ procs' = procs
              /\ heap'[conns[r].sess].status = "aborted"]_vars

\* C36: two processes that are alive at the same time for two distinct
\* experiment ids have distinct working directories.
C36_DistinctWorkspaces ==
    \A p \in DOMAIN procs, q \in DOMAIN procs :
        (/\ procs[p].state = "alive"
         /\ procs[q].state = "alive"
         /\ procs[p].id # procs[q].id) => cwd(p) # cwd(q)

\* C37: a session that is running eventually is completed, failed or
\* aborted, when every awaited call returns or throws and every process
\* exits or fails to spawn.
C37_RunningTerminates ==
    \A s \in 1..MaxReqs :
        (s \in DOMAIN heap /\ heap[s].status = "running")
            ~> (s \in DOMAIN heap /\ heap[s].status \in Terminal)

====
